---- MODULE Spec2Model ----
(***************************************************************************)
(* A model of the Bulk block partitioning (include/bulk/partitionings/     *)
(* block.hpp) and of the distributed FFT engine BulkFFT (examples/fft.cpp).*)
(*                                                                         *)
(* Arrays are functions over 0..len-1, as in the source.  C++ integer      *)
(* division and remainder truncate towards zero (CDiv, CMod).              *)
(***************************************************************************)
EXTENDS Integers, Sequences, FiniteSets, TLC

(***************************************************************************)
(* Bounds of the model.                                                    *)
(***************************************************************************)
\* largest data dimensionality D of a partitioning
MaxDim == 2
\* largest global extent of the data along one axis
MaxExtent == 4
\* largest number of processors along one grid axis
MaxGridExt == 3
\* values an out-of-bounds read of an index array may yield: -1..MaxJunk
MaxJunk == 1

(***************************************************************************)
(* C++ arithmetic and array helpers.                                       *)
(***************************************************************************)
\* int division, b > 0: truncation towards zero
CDiv(a, b) == IF a >= 0 THEN a \div b ELSE -((-a) \div b)

\* int remainder, b > 0: the sign of the dividend
CMod(a, b) == a - b * CDiv(a, b)

\* an array of length len filled with v (value-initialised std::array / vector)
Filled(len, v) == [k \in 0..(len - 1) |-> v]

\* the array with no element: an unset result
NoArray == Filled(0, 0)

\* arr[k]; a read outside the array is undefined and yields junk
Rd(arr, k, junk) == IF k \in DOMAIN arr THEN arr[k] ELSE junk

\* the values an out-of-bounds read may yield
JunkValues == (0 - 1)..MaxJunk

\* all arrays of length len with entries in S
Arrays(len, S) == [0..(len - 1) -> S]

(***************************************************************************)
(* The partitioning engine: block_partitioning<D, G>.                      *)
(***************************************************************************)
VARIABLES
    part,          \* "unbuilt" before the constructor ran, then "built"
    pD,            \* template parameter D
    pG,            \* template parameter G
    global_size_,  \* rectangular_partitioning::global_size_
    grid_size_,    \* rectangular_partitioning::grid_size_
    axes_,         \* block_partitioning::axes_
    block_size_,   \* block_partitioning::block_size_
    op,            \* the last member function called
    q_index,       \* argument of the last grid_owner / global_to_local call
    q_owner,       \* result of the last grid_owner call
    q_t,           \* argument of the last origin call
    q_origin,      \* result of the last origin call
    q_local,       \* result of the last global_to_local call
    q_idxs,        \* argument of the last local_size call
    q_junk,        \* what out-of-bounds reads of the last call yielded
    q_size         \* result of the last local_size call

partVars == <<part, pD, pG, global_size_, grid_size_, axes_, block_size_>>
queryVars == <<op, q_index, q_owner, q_t, q_origin, q_local, q_idxs, q_junk, q_size>>

(***************************************************************************)
(* The world: P ranks run the same driver (SPMD).  The driver constructs   *)
(* a BulkFFT on every rank and then calls reinitialize and fft on it; a    *)
(* call is issued to all ranks and each rank runs it at its own pace.      *)
(***************************************************************************)
VARIABLES
    P,        \* world.active_processors()
    world,    \* "running", "aborted" after world.abort(), "crashed"
    cmd,      \* the member call the driver issued last
    calls,    \* the number of reinitialize / fft calls issued
    pc,       \* per rank: where the rank is in the call
    eng,      \* per rank: the members n, p, s, k1, w0, w, tw, rho_np, rho_p
    loc,      \* per rank: the locals c, count, tw_cur, c0, rev of the call
    xs,       \* per rank: the local image of the coarray xs
    puts,     \* the puts issued in this superstep, not yet visible
    snap,     \* xs when the driver issued the last call
    nsync,    \* per rank: world.sync() calls made during the last call
    nput,     \* per rank: puts issued during the last call
    fft_ran,  \* per rank: the last call entered bspfft
    useFFTW,  \* the template parameter useFFTW of BulkFFT
    buf,      \* the coarray the driver holds: which one it is, and &xs[0]
    built,    \* per rank: the loop iterations of the last call that built plans
    plan_ran, \* per rank: the last call executed a plan
    fwd_in,   \* xs before the forward transform that xs is the result of
    trace     \* per rank: the steps of bspfft the last call took, in order

\* what the model records about a run, and the variant and the coarray
auxVars == <<useFFTW, buf, built, plan_ran, fwd_in, trace>>

fftVars == <<P, world, cmd, calls, pc, eng, loc, xs, puts, snap, nsync, nput,
             fft_ran, auxVars>>
vars == <<partVars, queryVars, fftVars>>

\* the partitioning engine is left as it is
PartStill == UNCHANGED <<partVars, queryVars>>

\* the world of the FFT engine is left as it is
WorldStill == UNCHANGED fftVars

\* the variant, the coarray and the records of the run are left as they are
AuxStill == UNCHANGED auxVars

\* injective axis maps from the G grid axes to the D data axes
AxisMaps(D, G) ==
    {a \in Arrays(G, 0..(D - 1)) : \A i, j \in 0..(G - 1) : i # j => a[i] # a[j]}

\* the number of processors of the grid
ProcCount == LET RECURSIVE prod(_)
                 prod(i) == IF i = pG THEN 1 ELSE grid_size_[i] * prod(i + 1)
             IN prod(0)

\* util::flatten: the linear id of a grid coordinate, row-major
flatten(volume, idxs) ==
    LET G == Cardinality(DOMAIN volume)
        RECURSIVE go(_, _)
        go(i, acc) == IF i = G THEN acc ELSE go(i + 1, acc * volume[i] + idxs[i])
    IN go(0, 0)

\* util::unflatten: the grid coordinate of a linear id, row-major
unflatten(volume, t) ==
    LET G == Cardinality(DOMAIN volume)
        RECURSIVE go(_, _, _)
        go(i, rest, res) ==
            IF i < 0 THEN res
            ELSE go(i - 1, rest \div volume[i], [res EXCEPT ![i] = rest % volume[i]])
    IN go(G - 1, t, Filled(G, 0))

\* the constructor's loop over the grid axes, from axis i on
BlockSizeLoop(bs, data_size, grid, axes, i) ==
    LET RECURSIVE go(_, _)
        go(b, k) ==
            IF k = Cardinality(DOMAIN grid) THEN b
            ELSE go([b EXCEPT ![axes[k]] = CDiv(data_size[axes[k]] - 1, grid[k]) + 1],
                    k + 1)
    IN go(bs, i)

\* block_partitioning(data_size, grid, axes): block_size_ after construction
block_partitioning(data_size, grid, axes) ==
    BlockSizeLoop(data_size, data_size, grid, axes, 0)

\* global_to_local(index)
global_to_local(index) ==
    [d \in DOMAIN index |-> CMod(index[d], block_size_[d])]

\* local_size(idxs): idxs is read at the data axis dim
local_size(idxs, junk) ==
    LET RECURSIVE go(_, _)
        go(size, i) ==
            IF i = pG THEN size
            ELSE LET dim == axes_[i]
                 IN go([size EXCEPT ![dim] =
                            CDiv(global_size_[dim] + grid_size_[i]
                                 - Rd(idxs, dim, junk) - 1, grid_size_[i])],
                       i + 1)
    IN go(global_size_, 0)

\* grid_owner(index)
grid_owner(index) ==
    [i \in 0..(pG - 1) |-> CDiv(index[axes_[i]], block_size_[axes_[i]])]

\* origin(t): the grid coordinate is read at the data axis d
origin(t, junk) ==
    LET multi_index == unflatten(grid_size_, t)
        RECURSIVE go(_, _)
        go(result, i) ==
            IF i = pG THEN result
            ELSE LET d == axes_[i]
                 IN go([result EXCEPT ![d] = block_size_[d] * Rd(multi_index, d, junk)],
                       i + 1)
    IN go(Filled(pD, 0), 0)

\* the valid global indices of the data
GlobalIndices == {g \in Arrays(pD, 0..(MaxExtent - 1)) :
                     \A d \in 0..(pD - 1) : g[d] < global_size_[d]}

\* the grid coordinates of the processors
GridIndices == {ix \in Arrays(pG, 0..(MaxGridExt - 1)) :
                   \A i \in 0..(pG - 1) : ix[i] < grid_size_[i]}

\* the configuration the spec asks of a caller: on every partitioned axis
\* the data extent is at least the grid extent
ValidConfig ==
    \A i \in 0..(pG - 1) : global_size_[axes_[i]] >= grid_size_[i]

PartInit ==
    /\ part = "unbuilt"
    /\ pD = 0 /\ pG = 0
    /\ global_size_ = NoArray /\ grid_size_ = NoArray
    /\ axes_ = NoArray /\ block_size_ = NoArray
    /\ op = "none"
    /\ q_index = NoArray /\ q_owner = NoArray /\ q_t = 0 - 1
    /\ q_origin = NoArray /\ q_local = NoArray
    /\ q_idxs = NoArray /\ q_junk = 0 /\ q_size = NoArray

\* block_partitioning<D, G>(data_size, grid, axes); there is no check of the
\* shape in the constructor
Construct ==
    /\ part = "unbuilt"
    /\ \E D \in 1..MaxDim : \E G \in 1..D :
       \E data_size \in Arrays(D, 1..MaxExtent) :
       \E grid \in Arrays(G, 1..MaxGridExt) :
       \E axes \in AxisMaps(D, G) :
          /\ pD' = D /\ pG' = G
          /\ global_size_' = data_size
          /\ grid_size_' = grid
          /\ axes_' = axes
          /\ block_size_' = block_partitioning(data_size, grid, axes)
    /\ part' = "built"
    /\ UNCHANGED queryVars
    /\ WorldStill

\* a call of local_size(idxs)
LocalSize ==
    /\ part = "built"
    /\ \E idxs \in GridIndices : \E junk \in JunkValues :
          /\ q_idxs' = idxs
          /\ q_junk' = junk
          /\ q_size' = local_size(idxs, junk)
    /\ op' = "local_size"
    /\ q_index' = NoArray /\ q_owner' = NoArray /\ q_t' = 0 - 1
    /\ q_origin' = NoArray /\ q_local' = NoArray
    /\ UNCHANGED partVars
    /\ WorldStill

\* a call of grid_owner(g)
GridOwner ==
    /\ part = "built"
    /\ \E g \in GlobalIndices :
          /\ q_index' = g
          /\ q_owner' = grid_owner(g)
    /\ op' = "grid_owner"
    /\ q_t' = 0 - 1 /\ q_origin' = NoArray /\ q_local' = NoArray
    /\ q_idxs' = NoArray /\ q_junk' = 0 /\ q_size' = NoArray
    /\ UNCHANGED partVars
    /\ WorldStill

\* a call of origin(t); the result of a preceding grid_owner call is kept
\* when t is the linear id of that owner
Origin ==
    /\ part = "built"
    /\ \E t \in 0..(ProcCount - 1) : \E junk \in JunkValues :
          /\ q_t' = t
          /\ q_junk' = junk
          /\ q_origin' = origin(t, junk)
          /\ IF op = "grid_owner" /\ t = flatten(grid_size_, q_owner)
             THEN UNCHANGED <<q_index, q_owner>>
             ELSE q_index' = NoArray /\ q_owner' = NoArray
    /\ op' = "origin"
    /\ q_local' = NoArray /\ q_idxs' = NoArray /\ q_size' = NoArray
    /\ UNCHANGED partVars
    /\ WorldStill

\* a call of global_to_local(g); the results of the preceding grid_owner and
\* origin calls are kept when g is the index those calls were about
GlobalToLocal ==
    /\ part = "built"
    /\ \E g \in GlobalIndices :
          /\ q_local' = global_to_local(g)
          /\ IF op = "origin" /\ q_index = g
             THEN UNCHANGED <<q_index, q_owner, q_t, q_origin, q_junk>>
             ELSE /\ q_index' = g
                  /\ q_owner' = NoArray /\ q_t' = 0 - 1
                  /\ q_origin' = NoArray /\ q_junk' = 0
    /\ op' = "global_to_local"
    /\ q_idxs' = NoArray /\ q_size' = NoArray
    /\ UNCHANGED partVars
    /\ WorldStill

PartNext == Construct \/ LocalSize \/ GridOwner \/ Origin \/ GlobalToLocal

(***************************************************************************)
(* The distributed FFT engine: BulkFFT<false> on a world of P ranks.       *)
(*                                                                         *)
(* NumType.  A std::complex<double> is modelled exactly by an element of   *)
(* the prime field Z_Q, Q = 2521: Q - 1 = 2520 is divisible by every       *)
(* length up to 10, so Z_Q holds a root of unity of every order the model  *)
(* uses.  std::polar(1.0, 2 pi a / b) is the Gen-power with exponent       *)
(* a * (Q - 1) / b; the weight tables hold these exponents ("angles"),     *)
(* std::conj of a unit-magnitude weight negates the angle, and 1 / n is    *)
(* the inverse of n in Z_Q.                                                *)
(***************************************************************************)
\* the modulus of the field that stands for std::complex<double>
Q == 2521
\* a generator of the multiplicative group of Z_Q
Gen == 17
\* a full turn, 2 pi, in angle units
Turn == Q - 1

\* largest number of processors of a world
MaxProcs == 4
\* largest transform length n passed to the constructor or to reinitialize
MaxN == 8
\* largest number of reinitialize / fft calls after the construction
MaxCalls == 2
\* the count loop of bspfft_init is followed for at most this many rounds
MaxCount == 4
\* number of addresses a coarray may be placed at
MaxAddr == 2

\* base^e in Z_Q
PowMod(base, e) ==
    LET RECURSIVE go(_, _, _)
        go(b, k, acc) ==
            IF k = 0 THEN acc
            ELSE go((b * b) % Q, k \div 2, IF k % 2 = 1 THEN (acc * b) % Q ELSE acc)
    IN go(base % Q, e, 1)

\* the angle 2 pi a / b, for b a divisor of Turn
Angle(a, b) == (a * (Turn \div b)) % Turn

\* std::polar(1.0, angle)
Polar(angle) == PowMod(Gen, angle % Turn)

\* the imaginary unit 1i
ImagUnit == Polar(Angle(1, 4))

\* 1 / (double)n
Reciprocal(n) == PowMod(n, Q - 2)

\* the number of elements of an array
Size(arr) == Cardinality(DOMAIN arr)

\* a resize that only ever grows the array
ResizeGrowingOnly(arr, len) ==
    IF Size(arr) > len THEN arr
    ELSE [k \in 0..(len - 1) |-> IF k \in DOMAIN arr THEN arr[k] ELSE 0]

\* std::vector::resize(len): the old elements are kept, new ones are zero
Resize(arr, len) == [k \in 0..(len - 1) |-> IF k \in DOMAIN arr THEN arr[k] ELSE 0]

\* a & b for a >= 0 (0 & b is 0 for every b)
BitAnd(a, b) ==
    LET RECURSIVE go(_, _)
        go(x, y) == IF x = 0 \/ y = 0 THEN 0
                    ELSE (x % 2) * (y % 2) + 2 * go(x \div 2, y \div 2)
    IN go(a, b)

\* isPowerOfTwo(n): (n & (n - 1)) == 0
isPowerOfTwo(n) == BitAnd(n, n - 1) = 0

\* bitrev_init with an inner loop for (k = 1; k <= n; k <<= 1)
BitReversedOneBitMore(j, len) ==
    LET RECURSIVE go(_, _, _)
        go(k, val, remaining) ==
            IF k > len THEN val
            ELSE go(2 * k, 2 * val + (remaining % 2), remaining \div 2)
    IN go(1, 0, j)

\* the bit-reversed value of j that the inner loop of bitrev_init computes
BitReversed(j, len) ==
    LET RECURSIVE go(_, _, _)
        go(k, val, remaining) ==
            IF k >= len THEN val
            ELSE go(2 * k, 2 * val + (remaining % 2), remaining \div 2)
    IN go(1, 0, j)

\* bitrev_init(rho) for a rho of length len
bitrev_init(len) ==
    IF len = 1 THEN Filled(1, 0)
    ELSE [j \in 0..(len - 1) |-> BitReversed(j, len)]

\* ufft_init(n, ws): the angles of ws[j] = exp(-2 pi i j / n), 0 <= j < n/2
ufft_init(n) ==
    [j \in 0..((n \div 2) - 1) |-> Angle(0 - j, n)]

\* the twiddle angles bspfft_init appends for cycle c on rank s:
\* rho * theta with theta = -2 pi alpha / np and alpha = (s % c) / c
TwiddleBlock(rho_np, s, c, np) ==
    [j \in DOMAIN rho_np |-> Angle(0 - (rho_np[j] * CMod(s, c)), c * np)]

\* the weight at an angle, conjugated for the backward transform
Weight(angle, Forward) ==
    IF Forward THEN Polar(angle) ELSE Polar(Turn - (angle % Turn))

\* one stage (butterfly size k) of ufft on the m elements of x from off on;
\* the reads are those of the loop body (Rd: every index is inside the array
\* whenever the buffer has the length the size check of fft asks for)
UfftStage(Forward, m, x, off, ws, k) ==
    LET nk == m \div k
        half == k \div 2
    IN [i \in DOMAIN x |->
          LET l == i - off
              j == l % k
          IN IF l < 0 \/ l >= nk * k THEN x[i]
             ELSE IF j < half
                  THEN (x[i] + Weight(Rd(ws, j * nk, 0), Forward)
                               * Rd(x, i + half, 0)) % Q
                  ELSE (x[i - half]
                        - Weight(Rd(ws, (j - half) * nk, 0), Forward) * x[i]) % Q]

\* ufft<Forward>(n, xs + off, ws)
ufft(Forward, m, x, off, ws) ==
    LET RECURSIVE go(_, _)
        go(y, k) == IF k > m THEN y
                    ELSE go(UfftStage(Forward, m, y, off, ws, k), 2 * k)
    IN go(x, 2)

\* twiddle<Forward>(xs, ws + tw_cur)
twiddle(Forward, x, ws, tw_cur) ==
    [j \in DOMAIN x |-> (x[j] * Weight(Rd(ws, tw_cur + j, 0), Forward)) % Q]

\* std::swap(xs[a], xs[b]); an xs[b] beyond the buffer reads junk and the
\* write to it leaves the buffer as it is
SwapElements(x, a, b, junk) ==
    IF a \in DOMAIN x /\ b \in DOMAIN x
    THEN [x EXCEPT ![a] = x[b], ![b] = x[a]]
    ELSE [k \in DOMAIN x |-> IF k = a \/ k = b THEN junk % Q ELSE x[k]]

\* permute(xs, sigma)
permute(x, sigma, junk) ==
    LET RECURSIVE go(_, _)
        go(y, j) ==
            IF j = Size(sigma) THEN y
            ELSE IF j < sigma[j] THEN go(SwapElements(y, j, sigma[j], junk), j + 1)
                 ELSE go(y, j + 1)
    IN go(x, 0)

\* permute(xs + off, sigma)
PermuteAt(x, off, sigma, junk) ==
    LET RECURSIVE go(_, _)
        go(y, j) ==
            IF j = Size(sigma) THEN y
            ELSE IF j < sigma[j]
                 THEN go(SwapElements(y, off + j, off + sigma[j], junk), j + 1)
                 ELSE go(y, j + 1)
    IN go(x, 0)

\* for (r = 0; r < np / k1; r++) permute(xs + r * k1, rho_p)
UndoPermutation(x, np, k1, rho_p, junk) ==
    LET RECURSIVE go(_, _)
        go(y, r) == IF r >= np \div k1 THEN y
                    ELSE go(PermuteAt(y, r * k1, rho_p, junk), r + 1)
    IN go(x, 0)

\* one of these permutes swaps with an element beyond the buffer
UndoOutOfBounds(x, np, k1, rho_p) ==
    \E r \in 0..((np \div k1) - 1) : \E j \in DOMAIN rho_p :
        j < rho_p[j] /\ (r * k1 + rho_p[j]) \notin DOMAIN x

\* fftw_execute of a plan of howmany transforms of length m, one after the
\* other in the buffer: each block becomes its discrete Fourier transform,
\* not scaled
fftw_execute(Forward, x, m, howmany) ==
    LET RECURSIVE sum(_, _, _)
        sum(off, k, j) ==
            IF j = m THEN 0
            ELSE (Rd(x, off + j, 0) * Weight(Angle(0 - (j * k), m), Forward)
                  + sum(off, k, j + 1)) % Q
    IN [i \in DOMAIN x |->
          IF m > 0 /\ i < m * howmany
          THEN sum((i \div m) * m, i % m, 0)
          ELSE x[i]]

\* permute(xs, sigma) swaps with an element beyond the buffer
PermuteOutOfBounds(x, sigma) ==
    \E j \in DOMAIN sigma : j < sigma[j] /\ sigma[j] \notin DOMAIN x

\* the local stage of bspfft: ufft of length k1 on each of the np / k1 blocks
LocalFFTs(Forward, x, np, k1, w0) ==
    LET RECURSIVE go(_, _)
        go(y, r) == IF r >= np \div k1 THEN y
                    ELSE go(ufft(Forward, k1, y, r * k1, w0), r + 1)
    IN go(x, 0)

\* the final scaling of the backward transform: x *= 1 / n
Scale(x, n) == [j \in DOMAIN x |-> (x[j] * Reciprocal(n)) % Q]

\* bspredistr: the packet size and the number of packets
PacketSize(np, ratio) == IF np \div ratio > 1 THEN np \div ratio ELSE 1

\* bspredistr with jglob that drops the term j0
GlobalIndexWithoutOffset(j, j0, j2, c0, np) == j2 * c0 * np + j * c0

\* bspredistr: jglob of packet j
GlobalIndexOf(j, j0, j2, c0, np) == j2 * c0 * np + j * c0 + j0

\* bspredistr with destproc that drops the term jglob % c1
DestProcOfGroupOnly(jglob, c1, np) == CDiv(jglob, c1 * np) * c1

\* bspredistr: destproc
DestProc(jglob, c1, np) == CDiv(jglob, c1 * np) * c1 + CMod(jglob, c1)

\* bspredistr with destindex that is not reduced modulo c1 * np
DestIndexOfWholeVector(jglob, c1, np) == CDiv(jglob, c1)

\* bspredistr: destindex
DestIndex(jglob, c1, np) == CDiv(CMod(jglob, c1 * np), c1)

\* bspredistr(xs, c0, c1, reversed) on rank s: the puts it issues, one per
\* packet j, each with the rank it comes from and the slice it writes
bspredistr(x, s, rho_p, np, c0, c1, reversed) ==
    LET ratio == c1 \div c0
        size == PacketSize(np, ratio)
        npackets == np \div size
        src == IF reversed THEN rho_p[s] ELSE s
        j0 == src % c0
        j2 == src \div c0
    IN {[src |-> s,
         pkt |-> j,
         dest |-> DestProc(GlobalIndexOf(j, j0, j2, c0, np), c1, np),
         idx |-> DestIndex(GlobalIndexOf(j, j0, j2, c0, np), c1, np),
         data |-> [r \in 0..(size - 1) |-> Rd(x, j + r * ratio, 0)]]
        : j \in 0..(npackets - 1)}

Ranks == 0..(P - 1)

\* nullptr
Null == 0

\* the members of an object that is not constructed yet; the plans
\* plan_consec_* and plan_np_* are one record: the coarray and the address they
\* are bound to, and the lengths they transform
NoEngine == [n |-> 0, p |-> 0, s |-> 0, k1 |-> 0, w0 |-> NoArray, w |-> NoArray,
             tw |-> NoArray, rho_np |-> NoArray, rho_p |-> NoArray,
             fftw_xs |-> Null, plan |-> [buf |-> 0, addr |-> 0, k1 |-> 0,
                                      howmany |-> 0, np |-> 0]]

\* the locals before a call set them
NoLocals == [c |-> 0, count |-> 0, tw_cur |-> 0, c0 |-> 0, rev |-> FALSE,
             i |-> 0]

\* int np = n / p on rank r
NP(r) == CDiv(eng[r].n, eng[r].p)

AllAt(where) == \A r \in Ranks : pc[r] = where

\* the coarray of local length len the driver fills with x[jglob] = jglob + 1i,
\* jglob = j * p + s
CyclicInput(len) ==
    [r \in Ranks |-> [j \in 0..(len - 1) |-> (j * P + r + ImagUnit) % Q]]

\* the driver called no member yet
NoCall == [op |-> "none", n |-> 0, fwd |-> TRUE]

\* the ghost counters at the start of a call
NoCount == [r \in Ranks |-> 0]

\* no step taken yet, on every rank
NoTrace == [r \in Ranks |-> <<>>]

\* no forward transform produced xs
NoInput == <<>>

\* the addresses the allocator may place a coarray at
Addresses == 1..MaxAddr

\* a new coarray is told from the one the plans were made for: two names are
\* enough
NewBufferId == IF \E r \in Ranks : eng[r].plan.buf = 1 THEN 2 ELSE 1

\* the first coarray of the driver
FirstBuffer == [id |-> 1, addr |-> 1]

FftWorldInit ==
    /\ P \in 1..MaxProcs
    /\ world = "running"
    /\ cmd = NoCall
    /\ calls = 0
    /\ pc = [r \in 0..(P - 1) |-> "new"]
    /\ eng = [r \in 0..(P - 1) |-> NoEngine]
    /\ loc = [r \in 0..(P - 1) |-> NoLocals]
    /\ xs = [r \in 0..(P - 1) |-> NoArray]
    /\ puts = {}
    /\ snap = [r \in 0..(P - 1) |-> NoArray]
    /\ nsync = [r \in 0..(P - 1) |-> 0]
    /\ nput = [r \in 0..(P - 1) |-> 0]
    /\ fft_ran = [r \in 0..(P - 1) |-> FALSE]
    /\ buf = FirstBuffer
    /\ built = [r \in 0..(P - 1) |-> <<>>]
    /\ plan_ran = [r \in 0..(P - 1) |-> FALSE]
    /\ fwd_in = NoInput
    /\ trace = [r \in 0..(P - 1) |-> <<>>]

\* the driver issues a call: every rank is to run it, the ghosts start anew
Issue(call) ==
    /\ cmd' = call
    /\ pc' = [r \in Ranks |-> "call"]
    /\ snap' = xs
    /\ nsync' = NoCount
    /\ nput' = NoCount
    /\ fft_ran' = [r \in Ranks |-> FALSE]
    /\ built' = NoTrace
    /\ plan_ran' = [r \in Ranks |-> FALSE]
    /\ trace' = NoTrace
    /\ fwd_in' = IF call.op # "fft" THEN NoInput
                 ELSE IF call.fwd THEN xs ELSE fwd_in
    /\ UNCHANGED <<P, world, eng, loc, xs, puts, useFFTW, buf>>

\* BulkFFT bulkfft(world, n)
DriverConstruct ==
    /\ world = "running"
    /\ AllAt("new")
    /\ \E n_ \in 0..MaxN : Issue([op |-> "construct", n |-> n_, fwd |-> TRUE])
    /\ UNCHANGED calls
    /\ PartStill

\* bulkfft.reinitialize(n)
DriverReinitialize ==
    /\ world = "running"
    /\ AllAt("idle")
    /\ calls < MaxCalls
    /\ calls' = calls + 1
    /\ \E n_ \in 0..MaxN : Issue([op |-> "reinitialize", n |-> n_, fwd |-> TRUE])
    /\ PartStill

\* bulkfft.fft<Forward>(xs)
DriverFft ==
    /\ world = "running"
    /\ AllAt("idle")
    /\ calls < MaxCalls
    /\ calls' = calls + 1
    /\ \E Forward \in BOOLEAN : Issue([op |-> "fft", n |-> 0, fwd |-> Forward])
    /\ PartStill

\* bulk::coarray<NumType> xs(world, m / p), filled with the cyclic input, in
\* the place of the coarray the driver held, which is destroyed: the allocator
\* may place it at the address of a coarray that is gone.  The variant
\* without FFTW never reads the address.  What the model recorded about the
\* last call is about the coarray that is gone, and is dropped.
DriverNewBuffer ==
    /\ world = "running"
    /\ AllAt("new") \/ AllAt("idle")
    /\ \E m \in 0..MaxN : xs' = CyclicInput(m \div P)
    /\ IF useFFTW
       THEN \E a \in Addresses : buf' = [id |-> NewBufferId, addr |-> a]
       ELSE UNCHANGED buf
    /\ cmd' = NoCall
    /\ snap' = xs'
    /\ nsync' = NoCount
    /\ nput' = NoCount
    /\ fft_ran' = [r \in Ranks |-> FALSE]
    /\ built' = NoTrace
    /\ plan_ran' = [r \in Ranks |-> FALSE]
    /\ trace' = NoTrace
    /\ fwd_in' = NoInput
    /\ UNCHANGED <<P, world, calls, pc, eng, loc, puts, useFFTW>>
    /\ PartStill

\* world.abort(): the whole world terminates
abort == world' = "aborted"

\* bspfft_init reads and writes only the members and locals of its own rank,
\* so its steps commute with every step of another rank: the ranks run it one
\* after the other, in the order of their numbers
InitTurn(r) ==
    \A o \in Ranks : o < r => pc[o] \notin {"call", "k1", "count", "tw", "bind"}

\* the search for k1 that stops one step early
InSearchBelowHalf(c, p) == 2 * c < p

\* the condition c < p of the search for k1: for (c = 1; c < p; c *= np)
InSearch(c, p) == c < p

\* the loops over the rounds with the condition c < p
InRoundBelowP(c, p) == c < p

\* the condition c <= p of the loops over the rounds: for (c = k1; c <= p;
\* c *= np) in bspfft_init, twice, and in bspfft
InRound(c, p) == c <= p

\* the constructor: the check of n and p, then bspfft_init
Ctor(r) ==
    /\ world = "running"
    /\ pc[r] = "call" /\ cmd.op = "construct"
    /\ InitTurn(r)
    /\ eng' = [eng EXCEPT ![r].n = cmd.n, ![r].p = P, ![r].s = r,
                          ![r].fftw_xs = Null]
    /\ IF ~isPowerOfTwo(cmd.n) \/ ~isPowerOfTwo(P)
       THEN abort /\ UNCHANGED <<pc, loc>>
       ELSE /\ loc' = [loc EXCEPT ![r].c = 1]
            /\ pc' = [pc EXCEPT ![r] = "k1"]
            /\ UNCHANGED world
    /\ UNCHANGED <<P, cmd, calls, xs, puts, snap, nsync, nput, fft_ran>>
    /\ PartStill
    /\ AuxStill

\* reinitialize(n_): n = n_, then bspfft_init
Reinitialize(r) ==
    /\ world = "running"
    /\ pc[r] = "call" /\ cmd.op = "reinitialize"
    /\ InitTurn(r)
    /\ eng' = [eng EXCEPT ![r].n = cmd.n]
    /\ loc' = [loc EXCEPT ![r].c = 1]
    /\ pc' = [pc EXCEPT ![r] = "k1"]
    /\ UNCHANGED <<P, world, cmd, calls, xs, puts, snap, nsync, nput, fft_ran>>
    /\ PartStill
    /\ AuxStill

\* bspfft_init: one iteration of for (c = 1; c < p; c *= np)
K1Loop(r) ==
    /\ world = "running"
    /\ pc[r] = "k1"
    /\ InSearch(loc[r].c, eng[r].p)
    /\ loc' = [loc EXCEPT ![r].c = loc[r].c * NP(r)]
    /\ UNCHANGED <<P, world, cmd, calls, pc, eng, xs, puts, snap, nsync, nput,
                   fft_ran>>
    /\ PartStill
    /\ AuxStill

\* bspfft_init: k1 = n / c, the bit reversals and the weights
BuildTables(r) ==
    /\ world = "running"
    /\ pc[r] = "k1"
    /\ ~(InSearch(loc[r].c, eng[r].p))
    /\ LET k1 == CDiv(eng[r].n, loc[r].c)
       IN /\ eng' = [eng EXCEPT ![r].k1 = k1,
                                ![r].rho_np = bitrev_init(NP(r)),
                                ![r].rho_p = bitrev_init(eng[r].p),
                                ![r].w0 = ufft_init(k1),
                                ![r].w = ufft_init(NP(r))]
          /\ loc' = [loc EXCEPT ![r].count = 0, ![r].c = k1]
    /\ pc' = [pc EXCEPT ![r] = "count"]
    /\ UNCHANGED <<P, world, cmd, calls, xs, puts, snap, nsync, nput, fft_ran>>
    /\ PartStill
    /\ AuxStill

\* bspfft_init: one iteration of for (c = k1; c <= p; c *= np) count++
CountLoop(r) ==
    /\ world = "running"
    /\ pc[r] = "count"
    /\ InRound(loc[r].c, eng[r].p)
    /\ loc[r].count < MaxCount
    /\ loc' = [loc EXCEPT ![r].count = loc[r].count + 1,
                          ![r].c = loc[r].c * NP(r)]
    /\ UNCHANGED <<P, world, cmd, calls, pc, eng, xs, puts, snap, nsync, nput,
                   fft_ran>>
    /\ PartStill
    /\ AuxStill

\* bspfft_init: tw.resize(count * np); tw_cur = tw.begin()
SizeTw(r) ==
    /\ world = "running"
    /\ pc[r] = "count"
    /\ ~(InRound(loc[r].c, eng[r].p))
    /\ eng' = [eng EXCEPT ![r].tw = Resize(eng[r].tw, loc[r].count * NP(r))]
    /\ loc' = [loc EXCEPT ![r].tw_cur = 0, ![r].c = eng[r].k1]
    /\ pc' = [pc EXCEPT ![r] = "tw"]
    /\ UNCHANGED <<P, world, cmd, calls, xs, puts, snap, nsync, nput, fft_ran>>
    /\ PartStill
    /\ AuxStill

\* bspfft_init: one iteration of the loop that fills tw
TwLoop(r) ==
    /\ world = "running"
    /\ pc[r] = "tw"
    /\ InRound(loc[r].c, eng[r].p)
    /\ LET block == TwiddleBlock(eng[r].rho_np, eng[r].s, loc[r].c, NP(r))
           at == loc[r].tw_cur
       IN eng' = [eng EXCEPT ![r].tw =
                     [k \in DOMAIN eng[r].tw |->
                         IF at <= k /\ k < at + Size(block)
                         THEN block[k - at] ELSE eng[r].tw[k]]]
    /\ loc' = [loc EXCEPT ![r].tw_cur = loc[r].tw_cur + Size(eng[r].rho_np),
                          ![r].c = loc[r].c * NP(r)]
    /\ UNCHANGED <<P, world, cmd, calls, pc, xs, puts, snap, nsync, nput, fft_ran>>
    /\ PartStill
    /\ AuxStill

\* bspfft_init returns, and with it the constructor or reinitialize;
\* fftw_initialize goes on
InitDone(r) ==
    /\ world = "running"
    /\ pc[r] = "tw"
    /\ ~(InRound(loc[r].c, eng[r].p))
    /\ pc' = [pc EXCEPT ![r] = IF cmd.op = "fftw_initialize" THEN "bind"
                               ELSE "idle"]
    /\ UNCHANGED <<P, world, cmd, calls, eng, loc, xs, puts, snap, nsync, nput,
                   fft_ran>>
    /\ PartStill
    /\ AuxStill

\* bulkfft.fftw_initialize(n, xs), xs the coarray the driver holds
DriverFftwInitialize ==
    /\ world = "running"
    /\ AllAt("idle")
    /\ calls < MaxCalls
    /\ calls' = calls + 1
    /\ \E n_ \in 0..MaxN :
          Issue([op |-> "fftw_initialize", n |-> n_, fwd |-> TRUE])
    /\ PartStill

\* fftw_initialize(n_, xs): reinitialize(n_) first
FftwInitialize(r) ==
    /\ world = "running"
    /\ pc[r] = "call" /\ cmd.op = "fftw_initialize"
    /\ InitTurn(r)
    /\ eng' = [eng EXCEPT ![r].n = cmd.n]
    /\ loc' = [loc EXCEPT ![r].c = 1]
    /\ pc' = [pc EXCEPT ![r] = "k1"]
    /\ UNCHANGED <<P, world, cmd, calls, xs, puts, snap, nsync, nput, fft_ran>>
    /\ PartStill
    /\ AuxStill

\* fftw_initialize: fftw_xs = (fftw_complex*)&xs[0], and the loop starts
BindBuffer(r) ==
    /\ world = "running"
    /\ pc[r] = "bind"
    /\ eng' = [eng EXCEPT ![r].fftw_xs = buf.addr]
    /\ loc' = [loc EXCEPT ![r].i = 0]
    /\ pc' = [pc EXCEPT ![r] = "plans"]
    /\ UNCHANGED <<P, world, cmd, calls, xs, puts, snap, nsync, nput, fft_ran>>
    /\ PartStill
    /\ AuxStill

\* fftw_initialize with every rank building its plans in every iteration
BuildsPlansAlways(i, s) == TRUE

\* fftw_initialize: if (i == s)
BuildsPlans(i, s) == i = s

\* fftw_initialize: the head of for (i = 0; i < p; ++i): the rank enters the
\* plan construction, or passes it by and enters world.sync()
PlanLoop(r) ==
    /\ world = "running"
    /\ pc[r] = "plans"
    /\ loc[r].i < eng[r].p
    /\ IF BuildsPlans(loc[r].i, eng[r].s)
       THEN /\ pc' = [pc EXCEPT ![r] = "build"]
            /\ UNCHANGED nsync
       ELSE /\ pc' = [pc EXCEPT ![r] = "psync"]
            /\ nsync' = [nsync EXCEPT ![r] = nsync[r] + 1]
    /\ UNCHANGED <<P, world, cmd, calls, eng, loc, xs, puts, snap, nput, fft_ran>>
    /\ PartStill
    /\ AuxStill

\* fftw_initialize: the four plans are made, for howmany = np / k1 transforms
\* of length k1 and for one of length np on fftw_xs; then world.sync()
BuildPlans(r) ==
    /\ world = "running"
    /\ pc[r] = "build"
    /\ eng' = [eng EXCEPT ![r].plan =
                  [buf |-> buf.id, addr |-> eng[r].fftw_xs, k1 |-> eng[r].k1,
                   howmany |-> CDiv(NP(r), eng[r].k1), np |-> NP(r)]]
    /\ built' = [built EXCEPT ![r] = Append(built[r], loc[r].i)]
    /\ nsync' = [nsync EXCEPT ![r] = nsync[r] + 1]
    /\ pc' = [pc EXCEPT ![r] = "psync"]
    /\ UNCHANGED <<P, world, cmd, calls, loc, xs, puts, snap, nput, fft_ran,
                   useFFTW, buf, plan_ran, fwd_in, trace>>
    /\ PartStill

\* fftw_initialize: world.sync() at the end of an iteration, and ++i
PlanBarrier ==
    /\ world = "running"
    /\ AllAt("psync")
    /\ loc' = [r \in Ranks |-> [loc[r] EXCEPT !.i = loc[r].i + 1]]
    /\ pc' = [r \in Ranks |-> "plans"]
    /\ UNCHANGED <<P, world, cmd, calls, eng, xs, puts, snap, nsync, nput,
                   fft_ran>>
    /\ PartStill
    /\ AuxStill

\* fftw_initialize returns
PlanReturn(r) ==
    /\ world = "running"
    /\ pc[r] = "plans"
    /\ ~(loc[r].i < eng[r].p)
    /\ pc' = [pc EXCEPT ![r] = "idle"]
    /\ UNCHANGED <<P, world, cmd, calls, eng, loc, xs, puts, snap, nsync, nput,
                   fft_ran>>
    /\ PartStill
    /\ AuxStill

\* fft with the size check against n instead of n / p
SizeMatchesGlobalLength(len, n, p) == len = n

\* fft: (int)xs.size() != n / p is the error
SizeMatches(len, n, p) == len = CDiv(n, p)

\* fft: fftw_xs != (fftw_complex*)&xs[0] is the error of the variant with FFTW
IsBound(fftw_xs, addr) == fftw_xs = addr

\* one step of bspfft as the model records it
Step(what, a, b, c) == [step |-> what, a |-> a, b |-> b, c |-> c]

\* bspfft before its loop, as recorded: the permutation by rho_np, then the
\* transforms of length k1 on the np / k1 blocks
LocalSteps(r) ==
    <<Step("permute", 0, 0, 0),
      Step(IF useFFTW THEN "fftw" ELSE "ufft", eng[r].k1, NP(r) \div eng[r].k1, 0)>>

\* bspfft before its loop: permute by rho_np, then the local FFTs of length
\* k1, by ufft or, with FFTW, by the plan after the permutation is undone in
\* part
LocalPhase(r, junk) ==
    LET permuted == permute(xs[r], eng[r].rho_np, junk)
    IN IF useFFTW
       THEN fftw_execute(cmd.fwd,
                         UndoPermutation(permuted, NP(r), eng[r].k1,
                                         eng[r].rho_p, junk),
                         eng[r].plan.k1, eng[r].plan.howmany)
       ELSE LocalFFTs(cmd.fwd, permuted, NP(r), eng[r].k1, eng[r].w0)

\* a permute of bspfft before its loop swaps with an element beyond the buffer
LocalOutOfBounds(r) ==
    \/ PermuteOutOfBounds(xs[r], eng[r].rho_np)
    \/ useFFTW /\ UndoOutOfBounds(xs[r], NP(r), eng[r].k1, eng[r].rho_p)

\* fft<Forward>(xs): the size check and, with FFTW, the check of the buffer
\* against fftw_xs; then bspfft up to its loop over the rounds.  A swap beyond
\* the buffer reads junk.
Fft(r) ==
    /\ world = "running"
    /\ pc[r] = "call" /\ cmd.op = "fft"
    /\ IF \/ ~SizeMatches(Size(xs[r]), eng[r].n, eng[r].p)
          \/ useFFTW /\ ~IsBound(eng[r].fftw_xs, buf.addr)
       THEN /\ abort
            /\ pc' = [pc EXCEPT ![r] = "idle"]
            /\ UNCHANGED <<xs, loc, fft_ran, plan_ran, trace>>
       ELSE /\ \E junk \in IF LocalOutOfBounds(r) THEN JunkValues ELSE {0} :
                  xs' = [xs EXCEPT ![r] = LocalPhase(r, junk)]
            /\ loc' = [loc EXCEPT ![r].c0 = 1, ![r].rev = TRUE, ![r].tw_cur = 0,
                                  ![r].c = eng[r].k1]
            /\ fft_ran' = [fft_ran EXCEPT ![r] = TRUE]
            /\ plan_ran' = [plan_ran EXCEPT ![r] = useFFTW]
            /\ trace' = [trace EXCEPT ![r] = LocalSteps(r)]
            /\ pc' = [pc EXCEPT ![r] = "loop"]
            /\ UNCHANGED world
    /\ UNCHANGED <<P, cmd, calls, eng, puts, snap, nsync, nput, useFFTW, buf,
                   built, fwd_in>>
    /\ PartStill

\* permute swaps with an element beyond the buffer and the process dies of it
FftCrash(r) ==
    /\ world = "running"
    /\ pc[r] = "call" /\ cmd.op = "fft"
    /\ SizeMatches(Size(xs[r]), eng[r].n, eng[r].p)
    /\ useFFTW => IsBound(eng[r].fftw_xs, buf.addr)
    /\ LocalOutOfBounds(r)
    /\ world' = "crashed"
    /\ fft_ran' = [fft_ran EXCEPT ![r] = TRUE]
    /\ UNCHANGED <<P, cmd, calls, pc, eng, loc, xs, puts, snap, nsync, nput>>
    /\ PartStill
    /\ AuxStill

\* bspfft with a loop that steps c by np * np
NextCycleSquared(c, np) == c * np * np

\* bspfft: the next value of c in for (c = k1; c <= p; c *= np)
NextCycle(c, np) == c * np

\* bspfft: c <= p, so bspredistr(xs, c0, c, rev) issues its puts and enters
\* world.sync()
Redistribute(r) ==
    /\ world = "running"
    /\ pc[r] = "loop"
    /\ InRound(loc[r].c, eng[r].p)
    /\ LET sent == bspredistr(xs[r], eng[r].s, eng[r].rho_p, NP(r),
                              loc[r].c0, loc[r].c, loc[r].rev)
       IN /\ puts' = puts \cup sent
          /\ nput' = [nput EXCEPT ![r] = nput[r] + Cardinality(sent)]
    /\ nsync' = [nsync EXCEPT ![r] = nsync[r] + 1]
    /\ trace' = [trace EXCEPT ![r] =
                    Append(trace[r], Step("bspredistr", loc[r].c0, loc[r].c,
                                          IF loc[r].rev THEN 1 ELSE 0))]
    /\ pc' = [pc EXCEPT ![r] = "sync"]
    /\ UNCHANGED <<P, world, cmd, calls, eng, loc, xs, snap, fft_ran, useFFTW,
                   buf, built, plan_ran, fwd_in>>
    /\ PartStill

\* a put that leaves the world or the destination's buffer
PutOutOfRange(q) ==
    \/ q.dest \notin Ranks
    \/ q.idx < 0
    \/ q.dest \in Ranks /\ q.idx + Size(q.data) > Size(xs[q.dest])

\* the buffers once the puts of the superstep are visible; where several puts
\* write one slot, the one applied last stays: the first or the last in rank
\* and packet order
ApplyPuts(x, pend, lastWins) ==
    [d \in DOMAIN x |->
        [k \in DOMAIN x[d] |->
            LET cover == {q \in pend : q.dest = d /\ q.idx <= k
                                       /\ k < q.idx + Size(q.data)}
                key(q) == q.src * (MaxN + 1) + q.pkt
                pick == CHOOSE q \in cover : \A o \in cover :
                            IF lastWins THEN key(o) <= key(q) ELSE key(q) <= key(o)
            IN IF cover = {} THEN x[d][k] ELSE pick.data[k - pick.idx]]]

\* world.sync(): every rank is in it; the puts become visible and every rank
\* leaves it
Barrier ==
    /\ world = "running"
    /\ AllAt("sync")
    /\ IF \E q \in puts : PutOutOfRange(q)
       THEN world' = "crashed" /\ UNCHANGED <<xs, pc, trace>>
       ELSE /\ \E lastWins \in BOOLEAN : xs' = ApplyPuts(xs, puts, lastWins)
            /\ pc' = [r \in Ranks |-> "round"]
            /\ trace' = [r \in Ranks |-> Append(trace[r], Step("sync", 0, 0, 0))]
            /\ UNCHANGED world
    /\ puts' = {}
    /\ UNCHANGED <<P, cmd, calls, eng, loc, snap, nsync, nput, fft_ran, useFFTW,
                   buf, built, plan_ran, fwd_in>>
    /\ PartStill

\* a round of bspfft after bspredistr, as recorded: the twiddle with the
\* slice of tw from tw_cur on, then the transform of length np
RoundSteps(r) ==
    <<Step("twiddle", loc[r].tw_cur, loc[r].tw_cur + NP(r), 0),
      Step(IF useFFTW THEN "fftw" ELSE "ufft", NP(r), 1, 0)>>

\* a round of bspfft after bspredistr: the twiddle with this round's slice
\* of tw, then the local FFT of length np, by ufft or, with FFTW, by the plan
\* after the permutation by rho_np
RoundPhase(r) ==
    LET twiddled == twiddle(cmd.fwd, xs[r], eng[r].tw, loc[r].tw_cur)
    IN IF useFFTW
       THEN fftw_execute(cmd.fwd, permute(twiddled, eng[r].rho_np, 0),
                         eng[r].plan.np, 1)
       ELSE ufft(cmd.fwd, NP(r), twiddled, 0, eng[r].w)

\* a round whose backward twiddle conjugates its slice of tw in place
AfterSyncConjugatingTw(r) ==
    /\ world = "running"
    /\ pc[r] = "round"
    /\ xs' = [xs EXCEPT ![r] = RoundPhase(r)]
    /\ eng' = [eng EXCEPT ![r].tw =
                  [k \in DOMAIN eng[r].tw |->
                      IF ~cmd.fwd /\ loc[r].tw_cur <= k /\ k < loc[r].tw_cur + NP(r)
                      THEN (Turn - (eng[r].tw[k] % Turn)) % Turn
                      ELSE eng[r].tw[k]]]
    /\ loc' = [loc EXCEPT ![r].rev = FALSE, ![r].c0 = loc[r].c,
                          ![r].tw_cur = loc[r].tw_cur + NP(r),
                          ![r].c = NextCycle(loc[r].c, NP(r))]
    /\ trace' = [trace EXCEPT ![r] = trace[r] \o RoundSteps(r)]
    /\ pc' = [pc EXCEPT ![r] = "loop"]
    /\ UNCHANGED <<P, world, cmd, calls, puts, snap, nsync, nput, fft_ran,
                   useFFTW, buf, built, plan_ran, fwd_in>>
    /\ PartStill

\* bspfft after bspredistr: rev = false, c0 = c, the twiddle with this
\* round's slice of tw, the local FFT of length np, and c *= np
AfterSync(r) ==
    /\ world = "running"
    /\ pc[r] = "round"
    /\ xs' = [xs EXCEPT ![r] = RoundPhase(r)]
    /\ loc' = [loc EXCEPT ![r].rev = FALSE, ![r].c0 = loc[r].c,
                          ![r].tw_cur = loc[r].tw_cur + NP(r),
                          ![r].c = NextCycle(loc[r].c, NP(r))]
    /\ trace' = [trace EXCEPT ![r] = trace[r] \o RoundSteps(r)]
    /\ pc' = [pc EXCEPT ![r] = "loop"]
    /\ UNCHANGED <<P, world, cmd, calls, eng, puts, snap, nsync, nput, fft_ran,
                   useFFTW, buf, built, plan_ran, fwd_in>>
    /\ PartStill

\* the end of bspfft with the scaling by 1 / n in both directions
FinishScalingAlways(r) ==
    /\ world = "running"
    /\ pc[r] = "loop"
    /\ ~InRound(loc[r].c, eng[r].p)
    /\ xs' = [xs EXCEPT ![r] = Scale(xs[r], eng[r].n)]
    /\ trace' = [trace EXCEPT ![r] = Append(trace[r], Step("scale", eng[r].n, 0, 0))]
    /\ pc' = [pc EXCEPT ![r] = "idle"]
    /\ UNCHANGED <<P, world, cmd, calls, eng, loc, puts, snap, nsync, nput, fft_ran,
                   useFFTW, buf, built, plan_ran, fwd_in>>
    /\ PartStill

\* bspfft: c > p ends the loop; the backward transform scales by 1 / n
Finish(r) ==
    /\ world = "running"
    /\ pc[r] = "loop"
    /\ ~(InRound(loc[r].c, eng[r].p))
    /\ xs' = [xs EXCEPT ![r] = IF cmd.fwd THEN xs[r] ELSE Scale(xs[r], eng[r].n)]
    /\ trace' = [trace EXCEPT ![r] =
                    IF cmd.fwd THEN trace[r]
                    ELSE Append(trace[r], Step("scale", eng[r].n, 0, 0))]
    /\ pc' = [pc EXCEPT ![r] = "idle"]
    /\ UNCHANGED <<P, world, cmd, calls, eng, loc, puts, snap, nsync, nput, fft_ran,
                   useFFTW, buf, built, plan_ran, fwd_in>>
    /\ PartStill

\* what rank r may do next
RankNext(r) ==
    \/ Ctor(r) \/ Reinitialize(r)
    \/ K1Loop(r) \/ BuildTables(r) \/ CountLoop(r) \/ SizeTw(r) \/ TwLoop(r)
    \/ InitDone(r)
    \/ Fft(r) \/ FftCrash(r) \/ Redistribute(r) \/ AfterSync(r) \/ Finish(r)

FftNext ==
    \/ DriverConstruct \/ DriverReinitialize \/ DriverFft \/ DriverNewBuffer
    \/ \E r \in Ranks : Ctor(r)
    \/ \E r \in Ranks : Reinitialize(r)
    \/ \E r \in Ranks : K1Loop(r)
    \/ \E r \in Ranks : BuildTables(r)
    \/ \E r \in Ranks : CountLoop(r)
    \/ \E r \in Ranks : SizeTw(r)
    \/ \E r \in Ranks : TwLoop(r)
    \/ \E r \in Ranks : InitDone(r)
    \/ \E r \in Ranks : Fft(r)
    \/ \E r \in Ranks : FftCrash(r)
    \/ \E r \in Ranks : Redistribute(r)
    \/ \E r \in Ranks : AfterSync(r)
    \/ \E r \in Ranks : Finish(r)
    \/ Barrier

\* the steps of the variant with FFTW: those of FftNext and fftw_initialize
FftwNext ==
    \/ FftNext
    \/ DriverFftwInitialize
    \/ \E r \in Ranks : FftwInitialize(r)
    \/ \E r \in Ranks : BindBuffer(r)
    \/ \E r \in Ranks : PlanLoop(r)
    \/ \E r \in Ranks : BuildPlans(r)
    \/ \E r \in Ranks : PlanReturn(r)
    \/ PlanBarrier

\* the steps of an engine with FFTW that the driver constructs and binds to
\* its coarray, over and over
PlanNext ==
    \/ DriverConstruct \/ DriverNewBuffer \/ DriverFftwInitialize
    \/ \E r \in Ranks : Ctor(r)
    \/ \E r \in Ranks : FftwInitialize(r)
    \/ \E r \in Ranks : K1Loop(r)
    \/ \E r \in Ranks : BuildTables(r)
    \/ \E r \in Ranks : CountLoop(r)
    \/ \E r \in Ranks : SizeTw(r)
    \/ \E r \in Ranks : TwLoop(r)
    \/ \E r \in Ranks : InitDone(r)
    \/ \E r \in Ranks : BindBuffer(r)
    \/ \E r \in Ranks : PlanLoop(r)
    \/ \E r \in Ranks : BuildPlans(r)
    \/ \E r \in Ranks : PlanReturn(r)
    \/ PlanBarrier

\* the partitioning, with the world standing still, and the other way round
PartQuiet ==
    /\ PartInit
    /\ P = 1 /\ world = "running"
    /\ cmd = NoCall
    /\ calls = 0
    /\ pc = [r \in {0} |-> "new"]
    /\ eng = [r \in {0} |-> NoEngine]
    /\ loc = [r \in {0} |-> NoLocals]
    /\ xs = [r \in {0} |-> NoArray]
    /\ puts = {}
    /\ snap = [r \in {0} |-> NoArray]
    /\ nsync = [r \in {0} |-> 0]
    /\ nput = [r \in {0} |-> 0]
    /\ fft_ran = [r \in {0} |-> FALSE]
    /\ useFFTW = FALSE
    /\ buf = FirstBuffer
    /\ built = [r \in {0} |-> <<>>]
    /\ plan_ran = [r \in {0} |-> FALSE]
    /\ fwd_in = NoInput
    /\ trace = [r \in {0} |-> <<>>]

\* BulkFFT<false>, the default
Init == PartInit /\ FftWorldInit /\ useFFTW = FALSE

\* BulkFFT<true>
FftwInit == PartInit /\ FftWorldInit /\ useFFTW = TRUE

Next == FftNext

\* the FFT engine in its world
Spec == Init /\ [][Next]_vars

\* every rank runs: a rank that can take a step takes one, and a barrier
\* that every rank entered completes
Fairness ==
    /\ \A r \in 0..(MaxProcs - 1) : WF_vars(r \in Ranks /\ RankNext(r))
    /\ WF_vars(Barrier)

FairSpec == Spec /\ Fairness

\* the FFT engine with FFTW in its world
FftwSpec == FftwInit /\ [][FftwNext]_vars

\* the FFT engine with FFTW, constructed and bound to coarrays
PlanSpec == FftwInit /\ [][PlanNext]_vars

\* the partitioning engine and its callers
PartSpec == PartQuiet /\ [][PartNext]_vars

(***************************************************************************)
(* Claims about the partitioning engine.                                   *)
(***************************************************************************)
\* the identity axis map on the first G axes (iota_)
IdentityAxes == \A i \in 0..(pG - 1) : axes_[i] = i

\* ceil(a / b)
CeilDiv(a, b) == (a + b - 1) \div b

\* the calls grid_owner(g), origin(flatten(owner)), global_to_local(g) were
\* made in a row about one index g
Located == op = "global_to_local" /\ q_owner # NoArray /\ q_origin # NoArray

\* C1: for a valid configuration and every valid global index g,
\* origin(flatten(grid_owner(g))) + global_to_local(g) equals g on every
\* partitioned axis.
C1_OwnershipRoundTrip ==
    (Located /\ ValidConfig) =>
        \A i \in 0..(pG - 1) :
            q_origin[axes_[i]] + q_local[axes_[i]] = q_index[axes_[i]]

\* C2: on a partitioned axis d mapped from grid axis i, local_size returns
\* ceil(GlobalShape[d] / GridExtent[i]) for every grid index but the last and
\* the remainder GlobalShape[d] - (GridExtent[i] - 1) * BlockShape[d] for the
\* last one.
C2_LocalSizeIsBlockOrRemainder ==
    (op = "local_size" /\ ValidConfig) =>
        \A i \in 0..(pG - 1) :
            LET d == axes_[i]
                BlockShape == CeilDiv(global_size_[d], grid_size_[i])
            IN IF q_idxs[i] < grid_size_[i] - 1
               THEN q_size[d] = BlockShape
               ELSE q_size[d] = global_size_[d] - (grid_size_[i] - 1) * BlockShape

\* the sum of local_size over the grid indices of grid axis i, the other
\* coordinates as in idxs, along the data axis of i
SizeSumAlong(idxs, i, junk) ==
    LET RECURSIVE sum(_)
        sum(k) == IF k = grid_size_[i] THEN 0
                  ELSE local_size([idxs EXCEPT ![i] = k], junk)[axes_[i]] + sum(k + 1)
    IN sum(0)

\* C3: along a partitioned axis the local sizes of the processors of one grid
\* line add up to the global extent of that axis.
C3_LocalSizesSumToGlobal ==
    (op = "local_size" /\ ValidConfig) =>
        \A i \in 0..(pG - 1) :
            SizeSumAlong(q_idxs, i, q_junk) = global_size_[axes_[i]]

\* C4: no partitioning object exists whose data extent is smaller than the
\* grid extent on a partitioned axis (construction fails instead).
C4_InvalidShapeNeverConstructed ==
    part = "built" => ValidConfig

\* the claims C1 and C3 on the default axis map only
IdentityC1 == IdentityAxes => C1_OwnershipRoundTrip
IdentityC3 == IdentityAxes => C3_LocalSizesSumToGlobal

(***************************************************************************)
(* Claims about the FFT engine.                                            *)
(***************************************************************************)
\* x is one of 1, 2, 4, 8, ...
IsPowerOfTwo(x) ==
    LET RECURSIVE halves(_)
        halves(y) == y = 1 \/ (y > 1 /\ y % 2 = 0 /\ halves(y \div 2))
    IN halves(x)

\* the ranks are inside the constructor or reinitialize, or returned from it
Initialising == cmd.op \in {"construct", "reinitialize"}

\* C5: for every power-of-two n and p = n, the initialisation every rank is
\* called to run comes to its end on that rank.
C5_InitTerminatesOnEqualSizes ==
    \A r \in 0..(MaxProcs - 1) :
        (r \in Ranks /\ Initialising /\ pc[r] = "call"
           /\ IsPowerOfTwo(cmd.n) /\ cmd.n = P)
        ~> (r \in Ranks /\ pc[r] = "idle")

\* the same for two elements per processor or more: n >= 2p
InitTerminatesOnLargerSizes ==
    \A r \in 0..(MaxProcs - 1) :
        (r \in Ranks /\ Initialising /\ pc[r] = "call"
           /\ IsPowerOfTwo(cmd.n) /\ IsPowerOfTwo(P) /\ cmd.n >= 2 * P)
        ~> (r \in Ranks /\ pc[r] = "idle")

\* C6: an initialisation (constructor or reinitialize) with an n or p that is
\* not a power of two aborts the world on the rank that runs it, and no
\* transform runs with an n or p that is not a power of two.
C6_NonPowerOfTwoAborts ==
    \A r \in Ranks :
        /\ (Initialising /\ (pc[r] # "call" \/ world # "running")
              /\ ~(IsPowerOfTwo(cmd.n) /\ IsPowerOfTwo(P)))
           => world = "aborted"
        /\ fft_ran[r] => (IsPowerOfTwo(eng[r].n) /\ IsPowerOfTwo(eng[r].p))

\* C7: an initialisation with p > n, both powers of two, aborts the world on
\* the rank that runs it: the rank never is inside bspfft_init nor past it.
C7_MoreProcessorsThanElementsAborts ==
    \A r \in Ranks :
        (Initialising /\ (pc[r] # "call" \/ world # "running")
           /\ IsPowerOfTwo(cmd.n) /\ IsPowerOfTwo(P) /\ P > cmd.n)
        => world = "aborted"

\* rank r is in or past a transform call on a buffer whose local length is
\* not n / p
Mismatched(r) ==
    /\ cmd.op = "fft"
    /\ pc[r] # "call"
    /\ Size(snap[r]) # eng[r].n \div eng[r].p

\* C8: a transform call on a buffer whose local length differs from n / p
\* aborts the world at its start: the buffer is as it was at the call, the
\* rank issued no put and entered no barrier, and no transform step ran.
C8_SizeMismatchAborts ==
    \A r \in Ranks :
        Mismatched(r) =>
            /\ world = "aborted"
            /\ pc[r] = "idle"
            /\ xs[r] = snap[r]
            /\ nput[r] = 0 /\ nsync[r] = 0
            /\ ~fft_ran[r]
            /\ \A q \in puts : q.src # r

C8_Witness ==
    \E r \in Ranks :
        /\ Mismatched(r)
        /\ world = "aborted"
        /\ Size(xs[r]) > 0
        /\ eng[r].n \div eng[r].p > 0

\* the number of redistribution rounds of a transform of n elements on p
\* processors with n / p >= 2: the values c = k1, k1 * np, ... up to p
RoundsOf(n, p) ==
    LET np == n \div p
        RECURSIVE cover(_)
        cover(c) == IF c < p THEN cover(c * np) ELSE c
        RECURSIVE rounds(_)
        rounds(c) == IF c <= p THEN 1 + rounds(c * np) ELSE 0
    IN IF np < 2 THEN 0 ELSE rounds(n \div cover(1))

\* C9: in a transform every rank enters the barrier once per round; a rank
\* that completed the transform entered it RoundsOf(n, p) times, whatever its
\* rank; no rank waits in a barrier while another rank left the transform;
\* and a rank at the head of the loop over the rounds can enter the next round
\* or leave the loop, and a barrier every rank entered can complete.
C9_SameBarrierCount ==
    (cmd.op = "fft" /\ world = "running") =>
        /\ \A r \in Ranks :
              /\ nsync[r] <= RoundsOf(eng[r].n, P)
              /\ (fft_ran[r] /\ pc[r] = "idle")
                 => nsync[r] = RoundsOf(eng[r].n, P)
        /\ \A r, o \in Ranks :
              /\ ~(pc[r] = "sync" /\ pc[o] = "idle")
              /\ (pc[r] = "idle" /\ pc[o] = "idle") => nsync[r] = nsync[o]
        /\ \A r \in Ranks :
              pc[r] = "loop" => ENABLED (Redistribute(r) \/ Finish(r))
        /\ AllAt("sync") => ENABLED Barrier

C9_Witness ==
    /\ cmd.op = "fft" /\ world = "running"
    /\ P = MaxProcs
    /\ AllAt("idle")
    /\ \A r \in Ranks : fft_ran[r] /\ nsync[r] = 2

\* the slots of the destination's buffer that put q writes
SlotsOf(q) == q.idx..(q.idx + Size(q.data) - 1)

\* C10: for powers of two p < n, two distinct puts of one round to the same
\* destination write disjoint ranges of slots, and the buffers after the
\* barrier are the same whichever put is applied last.
C10_PutsToOneRankDisjoint ==
    (IsPowerOfTwo(P) /\ \A r \in Ranks : IsPowerOfTwo(eng[r].n) /\ P < eng[r].n)
    =>
        /\ \A a, b \in puts :
              (a # b /\ a.dest = b.dest) => SlotsOf(a) \cap SlotsOf(b) = {}
        /\ AllAt("sync") => ApplyPuts(xs, puts, TRUE) = ApplyPuts(xs, puts, FALSE)

C10_Witness ==
    /\ IsPowerOfTwo(P) /\ \A r \in Ranks : IsPowerOfTwo(eng[r].n) /\ P < eng[r].n
    /\ AllAt("sync")
    /\ \E a, b \in puts :
          /\ a.src # b.src /\ a.dest = b.dest /\ Size(a.data) > 1

(***************************************************************************)
(* Claims about the variant with FFTW.                                     *)
(***************************************************************************)
\* the ranks inside the plan construction of fftw_initialize
Building == {r \in Ranks : pc[r] = "build"}

\* C11: in fftw_initialize at most one rank is inside the plan construction
\* at a time, rank i is inside it only in iteration i of the loop, a rank
\* builds its plans once, and a rank that returned from fftw_initialize built
\* them in its own iteration and entered the barrier p times.
C11_PlanConstructionExclusive ==
    /\ Cardinality(Building) <= 1
    /\ \A r \in Ranks :
          /\ pc[r] = "build" => loc[r].i = r
          /\ Len(built[r]) <= 1
          /\ \A k \in 1..Len(built[r]) : built[r][k] = r
          /\ (cmd.op = "fftw_initialize" /\ pc[r] = "idle")
             => (built[r] = <<r>> /\ nsync[r] = P)
          /\ (cmd.op = "fftw_initialize" /\ pc[r] \in {"plans", "build", "psync"})
             => nsync[r] <= P

C11_Witness ==
    /\ cmd.op = "fftw_initialize"
    /\ P = MaxProcs
    /\ AllAt("idle")
    /\ \A r \in Ranks : built[r] = <<r>> /\ nsync[r] = P

\* C12: with FFTW a transform executes a plan only on the coarray that the
\* last fftw_initialize bound; an fft call on another coarray, or before any
\* fftw_initialize, aborts the world and leaves the buffer as it was.
C12_PlanRunsOnBoundBufferOnly ==
    \A r \in Ranks :
        /\ plan_ran[r] => eng[r].plan.buf = buf.id
        /\ (useFFTW /\ cmd.op = "fft" /\ pc[r] # "call"
              /\ eng[r].plan.buf # buf.id)
           => (world = "aborted" /\ xs[r] = snap[r])

(***************************************************************************)
(* Claims about the tables and the rounds.                                 *)
(***************************************************************************)
\* rho maps 0 to 0 and is its own inverse on 0..Size(rho)-1
IsInvolution(rho) ==
    /\ rho[0] = 0
    /\ \A j \in DOMAIN rho : rho[j] \in DOMAIN rho /\ rho[rho[j]] = j

\* the bit-reversal tables of the engines, and those bitrev_init builds for
\* the lengths up to twice the largest n
TablesOfBitrev ==
    {eng[r].rho_np : r \in Ranks} \cup {eng[r].rho_p : r \in Ranks}
    \cup {bitrev_init(m) : m \in 1..(2 * MaxN)}

\* C13: a table rho that bitrev_init built for a power-of-two length m >= 1 has
\* rho[0] = 0 and rho[rho[j]] = j for all j < m.
C13_BitReversalInvolution ==
    \A rho \in TablesOfBitrev :
        IsPowerOfTwo(Size(rho)) => IsInvolution(rho)

C13_Witness ==
    \E r \in Ranks :
        /\ Size(eng[r].rho_np) = 8
        /\ eng[r].rho_np[1] = 4 /\ eng[r].rho_np[3] = 6
        /\ Size(eng[r].rho_p) = 1

\* bspfft_init has returned on rank r for the n the engine holds
TablesBuilt(r) ==
    pc[r] \in {"idle", "loop", "sync", "round", "bind", "plans", "build", "psync"}

\* the configurations the constructor is meant for
ValidConfiguration(r) ==
    /\ IsPowerOfTwo(eng[r].n) /\ IsPowerOfTwo(eng[r].p)
    /\ 1 <= eng[r].p /\ eng[r].p <= eng[r].n

\* the least integer not below the logarithm of num / den to the base b >= 2
CeilLogOfRatio(b, num, den) ==
    LET RECURSIVE up(_, _)
        up(t, v) == IF v >= num THEN t ELSE up(t + 1, v * b)
        RECURSIVE down(_, _)
        down(t, v) == IF v * b > den THEN t ELSE down(t + 1, v * b)
    IN IF b < 2 \/ num < 1 \/ den < 1 THEN 0
       ELSE IF num >= den THEN up(0, den) ELSE 0 - down(0, num)

\* the rounds bspfft_init counted: tw holds np entries for each
RoundsCounted(r) == Size(eng[r].tw) \div NP(r)

\* rank r has returned from a transform that ran
TransformDone(r) == cmd.op = "fft" /\ pc[r] = "idle" /\ fft_ran[r]

\* C14: for powers of two n and p with 1 <= p <= n, the number of rounds
\* counted when tw is built, and the number a transform executes, is the
\* least integer not below log_np(p / k1), and is at least one.
C14_RoundCount ==
    \A r \in Ranks :
        (TablesBuilt(r) /\ ValidConfiguration(r))
        => LET rounds == CeilLogOfRatio(NP(r), eng[r].p, eng[r].k1)
           IN /\ RoundsCounted(r) = rounds
              /\ rounds >= 1
              /\ TransformDone(r) => nsync[r] = rounds

\* C14, amended: for powers of two n and p with 1 <= p < n, the number of
\* rounds counted when tw is built, and the number a transform executes, is
\* log_np(p / k1) + 1, which is the least integer not below log_np(p): at
\* least one for p >= 2, and zero for p = 1.
C14_RoundCountIsCeilLogOfP ==
    \A r \in Ranks :
        (TablesBuilt(r) /\ ValidConfiguration(r) /\ eng[r].p < eng[r].n)
        => LET rounds == CeilLogOfRatio(NP(r), eng[r].p, 1)
           IN /\ RoundsCounted(r) = rounds
              /\ rounds = CeilLogOfRatio(NP(r), eng[r].p, eng[r].k1) + 1
              /\ rounds >= 1 <=> eng[r].p >= 2
              /\ TransformDone(r) => nsync[r] = rounds

C14_Witness ==
    /\ P = 4
    /\ \A r \in Ranks :
          /\ ValidConfiguration(r) /\ eng[r].n = 8
          /\ TransformDone(r)
          /\ RoundsCounted(r) = 2 /\ nsync[r] = 2

\* the length of the first local transforms for (n, p): n over the least
\* power of np that is not below p
K1For(n, p) ==
    LET RECURSIVE cover(_)
        cover(c) == IF c < p THEN cover(c * (n \div p)) ELSE c
    IN n \div cover(1)

\* the cycle of round i = 0, 1, ... for (n, p): k1 * np^i
CycleOfRound(n, p, i) ==
    LET RECURSIVE times(_)
        times(k) == IF k = 0 THEN K1For(n, p) ELSE times(k - 1) * (n \div p)
    IN times(i)

\* tw as bspfft_init leaves it for (n, p) on rank s: np angles for each round
TwFor(n, p, s) ==
    LET np == n \div p
    IN [k \in 0..(RoundsOf(n, p) * np - 1) |->
           TwiddleBlock(bitrev_init(np), s, CycleOfRound(n, p, k \div np), np)[k % np]]

\* the twiddle steps rank r has taken in the transform it is in
TwiddleSteps(r) ==
    {k \in 1..Len(trace[r]) : trace[r][k].step = "twiddle"}

\* C15: once the constructor or reinitialize(n') has returned, the engine
\* matches the n it holds: k1 is the value for (n, p), rho_np has n / p
\* entries and rho_p has p, w0 has k1 / 2 and w has np / 2, tw has np entries
\* for each round and nothing else; and the slice [r * np, (r + 1) * np) of
\* every round of a later transform lies inside tw.
C15_EngineMatchesN ==
    \A r \in Ranks :
        TablesBuilt(r)
        => LET n == eng[r].n
               p == eng[r].p
               np == n \div p
           IN /\ p = P /\ eng[r].s = r
              /\ eng[r].k1 = K1For(n, p)
              /\ Size(eng[r].rho_np) = np /\ eng[r].rho_np = bitrev_init(np)
              /\ Size(eng[r].rho_p) = p /\ eng[r].rho_p = bitrev_init(p)
              /\ Size(eng[r].w0) = eng[r].k1 \div 2
              /\ eng[r].w0 = ufft_init(eng[r].k1)
              /\ Size(eng[r].w) = np \div 2 /\ eng[r].w = ufft_init(np)
              /\ Size(eng[r].tw) = RoundsOf(n, p) * np
              /\ eng[r].tw = TwFor(n, p, r)
              /\ \A k \in TwiddleSteps(r) :
                    /\ 0 <= trace[r][k].a /\ trace[r][k].a % np = 0
                    /\ trace[r][k].b = trace[r][k].a + np
                    /\ trace[r][k].b <= Size(eng[r].tw)

C15_Witness ==
    /\ P = 2 /\ cmd.op = "reinitialize" /\ cmd.n = 4 /\ AllAt("idle")
    /\ \A r \in Ranks :
          /\ eng[r].n = 4 /\ eng[r].k1 = 2
          /\ Size(eng[r].tw) = 2 /\ Size(eng[r].rho_np) = 2

\* the members of the engine a transform reads
Members(e) == <<e.n, e.p, e.s, e.k1, e.w0, e.w, e.tw, e.rho_np, e.rho_p>>

\* C16: a transform writes the caller's buffer only: no step of a transform
\* call changes n, p, s, k1, w0, w, tw, rho_np or rho_p of any rank.
C16_TransformKeepsEngine ==
    [][cmd'.op = "fft" => \A r \in Ranks : Members(eng'[r]) = Members(eng[r])]_vars

C16_Witness ==
    /\ P = 2 /\ ~cmd.fwd
    /\ \A r \in Ranks :
          /\ TransformDone(r) /\ nsync[r] = 1
          /\ xs[r] # snap[r]
          /\ eng[r].n = 8 /\ Size(eng[r].tw) = 4

\* every rank has returned from a backward transform of the buffer that the
\* transform before it, a forward one, left
RoundTripDone ==
    /\ cmd.op = "fft" /\ ~cmd.fwd /\ fwd_in # NoInput
    /\ \A r \in Ranks : TransformDone(r)

\* the round trip where both transforms ran: the buffers hold the input again
RoundTripReturnsInput == RoundTripDone => xs = fwd_in

\* rank r is called to build the engine for powers of two n and p, p <= n
EngineRequested(r) ==
    /\ r \in Ranks /\ Initialising /\ pc[r] = "call"
    /\ IsPowerOfTwo(cmd.n) /\ IsPowerOfTwo(P) /\ P <= cmd.n

\* C17: for powers of two n and p with p <= n and an input x in the cyclic
\* distribution, the forward and then the backward transform return x, in
\* the same distribution: the engine for (n, p) gets built on every rank, and
\* a backward transform after a forward one leaves the input of the forward
\* one in every buffer.
C17_RoundTripReturnsInput ==
    /\ [](RoundTripReturnsInput)
    /\ \A r \in 0..(MaxProcs - 1) :
          EngineRequested(r) ~> (r \in Ranks /\ pc[r] = "idle")

\* buffers of the shape of xs in which every element is its own name
Labelled == [s \in Ranks |-> [l \in DOMAIN xs[s] |-> s * (MaxN + 1) + l]]

\* the puts the ranks issue in the round they are in, were the buffers x
PutsOfRound(x) ==
    UNION {bspredistr(x[s], eng[s].s, eng[s].rho_p, NP(s),
                      loc[s].c0, loc[s].c, loc[s].rev) : s \in Ranks}

\* the global index, under the cycle c0, of local index l on rank s
GlobalOfLocal(s, l, c0, np) == (s \div c0) * c0 * np + l * c0 + (s % c0)

\* the rank and the local index of global index g under the cycle c1
RankOfGlobal(g, c1, np) == (g \div (c1 * np)) * c1 + (g % c1)
LocalOfGlobal(g, c1, np) == (g % (c1 * np)) \div c1

\* C18: bspredistr(c0, c1) takes the element at local index l of rank s, of
\* global index g = (s div c0) * c0 * np + l * c0 + (s mod c0) with rho_p[s]
\* for s when reversed, to rank (g div (c1 * np)) * c1 + (g mod c1), local
\* index (g mod (c1 * np)) div c1, where it is after the barrier: every
\* element of every packet.
C18_RedistributionMapsGlobalIndex ==
    (world = "running" /\ AllAt("sync"))
    => \A lastWins \in BOOLEAN :
          LET after == ApplyPuts(xs, puts, lastWins)
              named == ApplyPuts(Labelled, PutsOfRound(Labelled), lastWins)
          IN \A s \in Ranks : \A l \in DOMAIN xs[s] :
                LET from == IF loc[s].rev THEN eng[s].rho_p[s] ELSE s
                    g == GlobalOfLocal(from, l, loc[s].c0, NP(s))
                    d == RankOfGlobal(g, loc[s].c, NP(s))
                    k == LocalOfGlobal(g, loc[s].c, NP(s))
                IN /\ d \in Ranks /\ k \in DOMAIN xs[d]
                   /\ puts = PutsOfRound(xs)
                   /\ after[d][k] = xs[s][l]
                   /\ named[d][k] = Labelled[s][l]

C18_Witness ==
    /\ world = "running" /\ AllAt("sync") /\ P = 4
    /\ \A s \in Ranks :
          /\ eng[s].n = 8 /\ ~loc[s].rev /\ loc[s].c0 = 2 /\ loc[s].c = 4
    /\ \E q \in puts : q.dest # q.src /\ Size(q.data) = 1
    /\ \E s \in Ranks : xs[s][0] # xs[s][1]

\* the steps of round i = 0, 1, ... of a transform for (n, p): the
\* redistribution from the cycle before to this round's, reversed in round
\* 0 only, the barrier, the twiddle with slice i of tw, the transform of
\* length np
StepsOfRound(n, p, i) ==
    LET np == n \div p
    IN <<Step("bspredistr", IF i = 0 THEN 1 ELSE CycleOfRound(n, p, i - 1),
              CycleOfRound(n, p, i), IF i = 0 THEN 1 ELSE 0),
         Step("sync", 0, 0, 0),
         Step("twiddle", i * np, (i + 1) * np, 0),
         Step("ufft", np, 1, 0)>>

\* the steps of a whole transform for (n, p), in their order
StepsOfTransform(n, p, Forward) ==
    LET np == n \div p
        RECURSIVE rounds(_)
        rounds(i) == IF i >= RoundsOf(n, p) THEN <<>>
                     ELSE StepsOfRound(n, p, i) \o rounds(i + 1)
    IN <<Step("permute", 0, 0, 0), Step("ufft", K1For(n, p), np \div K1For(n, p), 0)>>
       \o rounds(0)
       \o (IF Forward THEN <<>> ELSE <<Step("scale", n, 0, 0)>>)

IsPrefix(a, b) == Len(a) <= Len(b) /\ \A k \in 1..Len(a) : a[k] = b[k]

\* C19: on every rank a transform takes its steps in this order: the
\* permutation by rho_np, the transforms of length k1, then for every round
\* c = k1, k1 * np, ... <= p the redistribution from c0 to c with its barrier,
\* the twiddle with the round's slice and the transform of length np, with
\* c0 = 1 and the reversed ranks in the first round only, and at the end, for
\* the backward transform only, the scaling by 1 / n, once.
C19_StepsInOrder ==
    \A r \in Ranks :
        (cmd.op = "fft" /\ fft_ran[r] /\ pc[r] # "call")
        => LET steps == StepsOfTransform(eng[r].n, eng[r].p, cmd.fwd)
           IN /\ IsPrefix(trace[r], steps)
              /\ Len(trace[r]) >= 2
              /\ pc[r] = "idle" => trace[r] = steps
              /\ pc[r] = "round" => trace[r][Len(trace[r])].step = "sync"

C19_Witness ==
    /\ P = 4 /\ ~cmd.fwd
    /\ \A r \in Ranks :
          /\ TransformDone(r) /\ eng[r].n = 8
          /\ Len(trace[r]) = 11
          /\ trace[r][7] = Step("bspredistr", 2, 4, 0)
          /\ trace[r][11].step = "scale"

\* the local indices packet q was read from: j + r * ratio, 0 <= r < size
SourceIndices(q) ==
    {q.pkt + r * (loc[q.src].c \div loc[q.src].c0) : r \in 0..(Size(q.data) - 1)}

\* the puts that write slot k of rank d
WritersOf(d, k) == {q \in puts : q.dest = d /\ k \in SlotsOf(q)}

\* C20: in a round of a transform with powers of two p < n every put is in
\* range: 0 <= destproc < p, 0 <= destindex, destindex + size <= np, and
\* every index it reads is below np; and when all ranks are in the barrier
\* every slot of every rank is written by exactly one element of one packet,
\* so that the buffers after the barrier hold every element of the buffers
\* before it exactly once.
C20_RoundIsPermutation ==
    (\A r \in Ranks : ValidConfiguration(r) /\ eng[r].p < eng[r].n)
    => /\ \A q \in puts :
             /\ 0 <= q.dest /\ q.dest < P
             /\ 0 <= q.idx /\ q.idx + Size(q.data) <= NP(q.src)
             /\ \A l \in SourceIndices(q) : 0 <= l /\ l < NP(q.src)
       /\ (world = "running" /\ AllAt("sync"))
          => /\ \A d \in Ranks : \A k \in DOMAIN xs[d] :
                   Cardinality(WritersOf(d, k)) = 1
             /\ \A lastWins \in BOOLEAN :
                   LET named == ApplyPuts(Labelled, PutsOfRound(Labelled), lastWins)
                   IN \A s \in Ranks : \A l \in DOMAIN xs[s] :
                         Cardinality({dk \in UNION {{<<d, k>> : k \in DOMAIN xs[d]} : d \in Ranks} :
                                         named[dk[1]][dk[2]] = Labelled[s][l]}) = 1

C20_Witness ==
    /\ world = "running" /\ AllAt("sync") /\ P = 4
    /\ \A r \in Ranks : eng[r].n = 8 /\ loc[r].rev
    /\ Cardinality(puts) = 8
    /\ \E q \in puts : q.dest = 3 /\ q.src # 3

\* the indices of block r of the first local stage: ufft of length k1 on
\* xs.begin() + r * k1
BlockOfLocalStage(r, k1) == (r * k1)..(r * k1 + k1 - 1)

\* the blocks of the loop for (r = 0; r < np / k1; r++)
BlocksOfLocalStage(np, k1) == 0..((np \div k1) - 1)

\* C21: after the initialisation with powers of two 1 <= p < n, k1 is a
\* power of two with 1 <= k1 <= np that divides np, and the np / k1 blocks
\* of length k1 of the first local stage tile the local buffer: every index
\* below np is in exactly one block and no block reaches beyond np - 1.
C21_LocalBlocksTileBuffer ==
    \A r \in Ranks :
        (TablesBuilt(r) /\ ValidConfiguration(r) /\ eng[r].p < eng[r].n)
        => LET k1 == eng[r].k1
               np == eng[r].n \div eng[r].p
           IN /\ IsPowerOfTwo(k1) /\ 1 <= k1 /\ k1 <= np /\ np % k1 = 0
              /\ \A b \in BlocksOfLocalStage(np, k1) :
                    BlockOfLocalStage(b, k1) \subseteq 0..(np - 1)
              /\ \A j \in 0..(np - 1) :
                    Cardinality({b \in BlocksOfLocalStage(np, k1) :
                                    j \in BlockOfLocalStage(b, k1)}) = 1
              /\ (cmd.op = "fft" /\ fft_ran[r] /\ pc[r] # "call")
                 => /\ trace[r][2] = Step("ufft", k1, np \div k1, 0)
                    /\ k1 * trace[r][2].b = Size(xs[r])

C21_Witness ==
    /\ P = 2 /\ cmd.op = "fft"
    /\ \A r \in Ranks :
          /\ eng[r].n = 8 /\ eng[r].k1 = 2
          /\ pc[r] = "loop" /\ Len(trace[r]) = 2
          /\ trace[r][2] = Step("ufft", 2, 2, 0)

(***************************************************************************)
(* The block of a processor of the grid.                                   *)
(***************************************************************************)
\* the grid coordinate of the processor origin was last called for
CoordinateOfT == unflatten(grid_size_, q_t)

\* g lies in the block [origin(t), origin(t) + local_size(coordinate of t))
InBlockOfT(g) ==
    LET size == local_size(CoordinateOfT, q_junk)
    IN \A d \in 0..(pD - 1) :
          q_origin[d] <= g[d] /\ g[d] < q_origin[d] + size[d]

\* grid_owner stays inside the grid
OwnerInsideGrid ==
    \A g \in GlobalIndices : \A i \in 0..(pG - 1) :
        grid_owner(g)[i] < grid_size_[i]

\* C22: for a valid configuration and every processor t of the grid, the
\* block [origin(t), origin(t) + local_size(coordinate of t)) lies inside
\* the global shape on every axis and holds exactly the global indices g
\* with grid_owner(g) the coordinate of t; and grid_owner(g)[i] is below
\* the grid extent of axis i for every valid g.
C22_BlockIsWhatProcessorOwns ==
    (op = "origin" /\ ValidConfig)
    => LET size == local_size(CoordinateOfT, q_junk)
       IN /\ \A d \in 0..(pD - 1) :
                0 <= q_origin[d] /\ q_origin[d] + size[d] <= global_size_[d]
          /\ \A g \in GlobalIndices :
                InBlockOfT(g) <=> grid_owner(g) = CoordinateOfT
          /\ OwnerInsideGrid

====
